---- MODULE Spec2Model ----
(***************************************************************************)
(* mdpdf: Markdown -> HTML -> PDF.  The repository holds two copies of the *)
(* converter module, both exporting convert(options):                      *)
(*   "part"  : src/unnamed/part_000 (separate header layout, header and    *)
(*             footer handed to the engine as per-page templates)          *)
(*   "index" : src/index.js (header and footer bound into the body layout, *)
(*             optional debug dump)                                        *)
(* A process loads one of them (impl).  Several convert calls may be in    *)
(* flight in the process; each action below is the completion of one       *)
(* awaited operation together with the .then handler that consumes it.     *)
(***************************************************************************)
EXTENDS Naturals, Sequences, FiniteSets, TLC

\* ------------------------------------------------------------ bounds
NumConv == 2
MaxSrcLen == 3

Conv == 1..NumConv

\* --------------------------------------------------------- JS values
\* A value held by options.header / options.footer: undefined, a string
\* naming a file, or a string of HTML (a sequence of nodes).
Undef == [k |-> "undef", path |-> "", nodes |-> <<>>]
Str(p) == [k |-> "path", path |-> p, nodes |-> <<>>]
Html(ns) == [k |-> "html", path |-> "", nodes |-> ns]

\* JS truthiness of such a value: undefined and '' are falsy.
Truthy(v) == \/ v.k = "path" /\ v.path # ""
             \/ v.k = "html" /\ v.nodes # <<>>

\* The file name a value denotes when handed to fs.readFile: a string of
\* HTML names no file of the tree.
FileName(v) == IF v.k = "path" THEN v.path ELSE "<html>"

\* ------------------------------------------------------ HTML nodes
Text(s) == [t |-> "text", has |-> FALSE, src |-> <<>>, s |-> s]
Img(src) == [t |-> "img", has |-> TRUE, src |-> src, s |-> ""]
ImgNoSrc == [t |-> "img", has |-> FALSE, src |-> <<>>, s |-> ""]

\* ------------------------------------------------------- the package
DocBodyLayout == "pkg/layouts/doc-body.hbs"
HeaderLayout == "pkg/layouts/header.hbs"
IndexLayout == "pkg/layout.hbs"
HighlightJs == "file://pkg/assets/highlight/highlight.pack.js"
GithubCss == "pkg/assets/github-markdown-css.css"
HighlightCss == "pkg/assets/highlight/styles/github.css"
DefaultCss == "pkg/assets/default.css"

\* ------------------------------------------------ src strings (tokens)
\* An img src is a string, modelled as a sequence of tokens.  A scheme
\* token is a scheme name followed by ':'; a word token consists of
\* characters a URI scheme may contain; "/" may not occur in a scheme.
SchemeTok == {"http:", "https:", "ftp:", "file:", "data:"}
WordTok == {"img.png"}
SepTok == {"/"}
Tok == SchemeTok \cup WordTok \cup SepTok

\* url.parse(src).protocol: the match of /^[a-z0-9.+-]+:/i (lowercased:
\* the tokens are lower case already); <<>> stands for null.  The match
\* ends at the first ':' provided only scheme characters precede it.
ProtoEnd(src) ==
    LET ends == {i \in 1..Len(src) :
                    /\ src[i] \in SchemeTok
                    /\ \A j \in 1..(i-1) : src[j] \in WordTok}
    IN IF ends = {} THEN 0 ELSE CHOOSE i \in ends : \A j \in ends : i <= j

UrlProtocol(src) == SubSeq(src, 1, ProtoEnd(src))

\* new RegExp('http:|https:').test(src): an unanchored search.
RegexTestUnanchored(src) == \E i \in 1..Len(src) : src[i] \in {"http:", "https:"}

hasAcceptableProtocol(src) ==
    IF UrlProtocol(src) = <<>> THEN FALSE ELSE RegexTestUnanchored(src)

\* path.resolve(assetDir, src) followed by normalisation: an absolute src
\* replaces the base, repeated and trailing separators are dropped.
RECURSIVE Normalize(_)
Normalize(p) ==
    IF p = <<>> THEN <<>>
    ELSE IF Head(p) = "/" /\ (Len(p) = 1 \/ p[2] = "/") THEN
            IF Len(p) = 1 THEN <<>> ELSE Normalize(Tail(p))
    ELSE <<Head(p)>> \o Normalize(Tail(p))

PathResolve(dir, src) ==
    LET joined == IF src # <<>> /\ Head(src) = "/" THEN src ELSE <<dir, "/">> \o src
        n == Normalize(joined)
    IN IF n = <<>> THEN <<"/">> ELSE n

\* fileUrl(path)
FileUrl(p) == <<"file://">> \o p

processSrc(src, dir) ==
    IF hasAcceptableProtocol(src) THEN src ELSE FileUrl(PathResolve(dir, src))

\* All src strings of at most MaxSrcLen tokens.
RECURSIVE SeqsUpTo(_, _)
SeqsUpTo(S, n) ==
    IF n = 0 THEN {<<>>}
    ELSE LET shorter == SeqsUpTo(S, n - 1)
         IN shorter \cup {Append(q, x) : q \in shorter, x \in S}

SrcSet == SeqsUpTo(Tok, MaxSrcLen)

\* qualifyImgSources: every img's src goes through processSrc.  An img
\* without a src attribute hands undefined to url.parse, which throws.
QualifyThrows(nodes) == \E i \in 1..Len(nodes) : nodes[i].t = "img" /\ ~nodes[i].has

\* A resolver that resolves against the process's working directory.
qualifyImgSourcesAgainstCwd(nodes, dir) ==
    [i \in 1..Len(nodes) |->
        IF nodes[i].t = "img" THEN Img(processSrc(nodes[i].src, ".")) ELSE nodes[i]]

qualifyImgSources(nodes, dir) ==
    [i \in 1..Len(nodes) |->
        IF nodes[i].t = "img" THEN Img(processSrc(nodes[i].src, dir)) ELSE nodes[i]]

\* ------------------------------------------------------- Markdown
MdText(s) == [m |-> "text", src |-> <<>>, s |-> s]
MdEmoji == [m |-> "emoji", src |-> <<>>, s |-> ":smile:"]
MdImg(src) == [m |-> "img", src |-> src, s |-> ""]
MdRawImg == [m |-> "rawimg", src |-> <<>>, s |-> ""]
MdStrike == [m |-> "strike", src |-> <<>>, s |-> "x"]

\* new showdown.Converter(options): the process-wide flavor in effect,
\* and the emoji extension if the options carry it.
Converter(fl, convertEmojis) == [flavor |-> fl, emoji |-> convertEmojis]

\* converter.makeHtml: strikethrough is a feature of the github flavor,
\* shortcodes are replaced only by the emoji extension.
makeHtml(converter, md) ==
    [i \in 1..Len(md) |->
        CASE md[i].m = "text" -> Text(md[i].s)
          [] md[i].m = "emoji" -> IF converter.emoji THEN Text("glyph:smile") ELSE Text(":smile:")
          [] md[i].m = "strike" -> IF converter.flavor = "github"
                                   THEN Text("del:x") ELSE Text("~~x~~")
          [] md[i].m = "img" -> Img(md[i].src)
          [] OTHER -> ImgNoSrc]

\* A parser that converts under the flavor the module was loaded with.
parseMarkdownUnderDefaultFlavor(md, convertEmojis) ==
    makeHtml(Converter("vanilla", convertEmojis), md)

\* showdown.setFlavor('github'), then a new converter and makeHtml.
parseMarkdownToHtml(md, convertEmojis) ==
    makeHtml(Converter("github", convertEmojis), md)

\* ---------------------------------------------------- input files
\* The input files of the tree; they are never written by a conversion.
InputFiles ==
    {DocBodyLayout, HeaderLayout, IndexLayout, GithubCss, HighlightCss, DefaultCss,
     "/docs/a.md", "/docs/bad.md", "/tpl/h.html", "/tpl/f.html", "/tpl/empty.html",
     "/docs/user.css"}

MdContent(p) ==
    IF p = "/docs/a.md"
    THEN <<MdText("Title"), MdEmoji, MdStrike, MdImg(<<"img.png">>),
           MdImg(<<"https:", "/", "img.png">>)>>
    ELSE <<MdText("Bad"), MdRawImg>>

FragmentContent(p) ==
    CASE p = "/tpl/h.html" -> <<Text("hdr"), Img(<<"img.png">>)>>
      [] p = "/tpl/f.html" -> <<Text("ftr"), Img(<<"http:", "/", "img.png">>), Img(<<"img.png">>)>>
      [] OTHER -> <<>>

\* path.dirname of the paths the model uses.
Dirname(p) ==
    CASE p \in {"/docs/a.md", "/docs/bad.md", "/docs/gone.md"} -> "/docs"
      [] p \in {"/out/a.pdf", "/out/b.pdf"} -> "/out"
      [] p = "/other/c.pdf" -> "/other"
      [] OTHER -> "."

Dests == {"/out/a.pdf", "/out/b.pdf", "/other/c.pdf"}
TempDirs == {"/out", "/other"}
DebugPaths == {"/out/debug.html"}

\* ------------------------------------------------------------ state
VARIABLES
    impl,      \* which copy of the module the process loaded: "part" | "index"
    missing,   \* input files that do not exist (fixed for the run)
    obj,       \* the options objects callers hold (object c is made for call c);
               \* convert mutates them
    flavor,    \* showdown's process-wide flavor
    pc,        \* per conversion: the awaited operation, or a terminal state
    use,       \* per conversion: the options object it was called with (0: not called)
    st,        \* per conversion: locals of convert / createPdf
    browser,   \* per conversion: "none" | "open" | "closed"
    page,      \* per conversion: "none" | "open" | "closed"
    tmp,       \* the _temp.html of each directory
    pdf,       \* the destination files
    dbg,       \* the debug files
    log,       \* per conversion: the I/O operations it attempted, in order
    before,    \* per conversion: the conversions that had ended when it was called
    rPc, rIn, rDir, rOut,  \* the Asset Path Resolver applied on its own
    sPc, sOpt, sOut        \* the Style Composer applied on its own

mainVars == <<impl, missing, obj, flavor, pc, use, st, browser, page, tmp, pdf, dbg, log, before>>
srcVars == <<rPc, rIn, rDir, rOut, sPc, sOpt, sOut>>
vars == <<impl, missing, obj, flavor, pc, use, st, browser, page, tmp, pdf, dbg, log, before,
          rPc, rIn, rDir, rOut, sPc, sOpt, sOut>>

\* ---------------------------------------------------------- options
Opt(source, destination, header, footer, styles, gh, def, noEmoji, debug, hasPdf) ==
    [source |-> source, destination |-> destination, header |-> header,
     footer |-> footer, styles |-> styles, ghStyle |-> gh, defaultStyle |-> def,
     noEmoji |-> noEmoji, debug |-> debug, pdf |-> hasPdf, assetDir |-> ""]

\* The options objects callers pass.
PlainOptions ==
    Opt(Str("/docs/a.md"), Str("/out/a.pdf"), Undef, Undef, Undef, TRUE, TRUE, FALSE, Undef, TRUE)

\* The options objects callers pass: complete ones, ones lacking a
\* mandatory option, and ones naming files that do not exist.
OptionPresets ==
    { PlainOptions,
      Opt(Str("/docs/a.md"), Str("/out/b.pdf"), Str("/tpl/h.html"), Str("/tpl/f.html"),
          Str("/docs/user.css"), FALSE, FALSE, TRUE, Str("/out/debug.html"), TRUE),
      Opt(Undef, Str("/out/a.pdf"), Str("/tpl/h.html"), Undef, Undef, TRUE, FALSE, FALSE, Undef, TRUE),
      Opt(Str("/docs/a.md"), Undef, Undef, Str("/tpl/f.html"), Undef, FALSE, TRUE, FALSE, Undef, TRUE),
      Opt(Str("/docs/a.md"), Str("/other/c.pdf"), Undef, Str("/tpl/empty.html"), Undef,
          FALSE, FALSE, FALSE, Undef, TRUE),
      Opt(Str("/docs/a.md"), Str("/other/c.pdf"), Str("/tpl/h.html"), Undef, Undef,
          FALSE, TRUE, FALSE, Undef, TRUE),
      Opt(Str("/docs/a.md"), Str("/out/b.pdf"), Undef, Str("/tpl/f.html"), Undef,
          TRUE, FALSE, FALSE, Undef, TRUE),
      Opt(Str("/docs/bad.md"), Str("/out/a.pdf"), Undef, Undef, Undef, TRUE, TRUE, FALSE, Undef, TRUE),
      Opt(Str("/docs/gone.md"), Str("/out/a.pdf"), Undef, Undef, Undef, TRUE, TRUE, FALSE, Undef, TRUE),
      Opt(Str("/docs/a.md"), Str("/out/a.pdf"), Undef, Undef, Str("/docs/gone.css"),
          TRUE, TRUE, FALSE, Undef, TRUE),
      Opt(Str("/docs/a.md"), Str("/out/b.pdf"), Str("/tpl/gone.html"), Undef, Undef,
          TRUE, FALSE, FALSE, Undef, TRUE),
      Opt(Str("/docs/a.md"), Str("/out/b.pdf"), Undef, Str("/tpl/gone.html"), Undef,
          TRUE, FALSE, FALSE, Undef, TRUE),
      Opt(Str("/docs/a.md"), Str("/other/c.pdf"), Undef, Undef, Undef,
          FALSE, FALSE, FALSE, Undef, FALSE) }

\* The sets of bundled files that may be absent from the install.
MissingChoices == {{}, {DocBodyLayout, IndexLayout, HeaderLayout}}

Readable(p) == p \in InputFiles \ missing

\* ----------------------------------------------------- Style Composer
\* A composer that puts the user stylesheet first.
getAllStylesUserFirst(o) ==
    (IF Truthy(o.styles) THEN <<FileName(o.styles)>> ELSE <<>>)
    \o (IF o.ghStyle THEN <<GithubCss>> ELSE <<>>)
    \o <<HighlightCss>>
    \o (IF o.defaultStyle THEN <<DefaultCss>> ELSE <<>>)

getAllStyles(o) ==
    (IF o.ghStyle THEN <<GithubCss>> ELSE <<>>)
    \o <<HighlightCss>>
    \o (IF o.defaultStyle THEN <<DefaultCss>> ELSE <<>>)
    \o (IF Truthy(o.styles) THEN <<FileName(o.styles)>> ELSE <<>>)

\* A reader that passes over a stylesheet it cannot read.
NoneUnreadable(sheets) == 0

\* The index of the first stylesheet fs.readFileSync fails on (0: none).
FirstUnreadable(sheets) ==
    LET bad == {i \in 1..Len(sheets) : ~Readable(sheets[i])}
    IN IF bad = {} THEN 0 ELSE CHOOSE i \in bad : \A j \in bad : i <= j

\* getCssAsHtml: one <style> block per stylesheet, in order.
getCssAsHtml(sheets) == [i \in 1..Len(sheets) |-> [tag |-> "style", text |-> sheets[i]]]

\* The reads getCssAsHtml attempts: all, or up to the one that throws.
CssReads(sheets) ==
    LET k == FirstUnreadable(sheets)
        n == IF k = 0 THEN Len(sheets) ELSE k
    IN [i \in 1..n |-> [op |-> "readFileSync", path |-> sheets[i]]]

\* -------------------------------------------------------- documents
NoDoc == [set |-> FALSE, css |-> <<>>, js |-> "", body |-> <<>>, header |-> Undef, footer |-> Undef]
Doc(css, body, header, footer) ==
    [set |-> TRUE, css |-> css, js |-> HighlightJs, body |-> body, header |-> header, footer |-> footer]

NoPuppet == [set |-> FALSE, path |-> "", displayHeaderFooter |-> FALSE,
             headerTemplate |-> Undef, footerTemplate |-> Undef]

NoFile == [exists |-> FALSE, by |-> 0, html |-> NoDoc]
File(c, html) == [exists |-> TRUE, by |-> c, html |-> html]

NoPdf == [exists |-> FALSE, by |-> 0, html |-> NoDoc, puppet |-> NoPuppet]

NoLoaded == [set |-> FALSE, by |-> 0, html |-> NoDoc]

InitSt ==
    [argHeader |-> Undef, argFooter |-> Undef,
     css |-> <<>>, read |-> Undef, hdr |-> Undef, ftr |-> Undef,
     html |-> NoDoc, temp |-> "", loaded |-> NoLoaded, puppet |-> NoPuppet,
     result |-> "", err |-> ""]

Terminal == {"threw", "rejected", "resolved"}

NoCallYet ==
    /\ flavor = "vanilla"
    /\ pc = [c \in Conv |-> "idle"]
    /\ use = [c \in Conv |-> 0]
    /\ st = [c \in Conv |-> InitSt]
    /\ browser = [c \in Conv |-> "none"]
    /\ page = [c \in Conv |-> "none"]
    /\ tmp = [d \in TempDirs |-> NoFile]
    /\ pdf = [p \in Dests |-> NoPdf]
    /\ dbg = [p \in DebugPaths |-> NoFile]
    /\ log = [c \in Conv |-> <<>>]
    /\ before = [c \in Conv |-> {}]

MainInit ==
    /\ impl \in {"part", "index"}
    /\ missing \in MissingChoices
    /\ obj = [c \in Conv |-> PlainOptions]
    /\ NoCallYet

CssIdle ==
    /\ sPc = "off"
    /\ sOpt = PlainOptions
    /\ sOut = <<>>

SrcIdle ==
    /\ rPc = "off"
    /\ rIn = <<>>
    /\ rDir = ""
    /\ rOut = <<>>
    /\ CssIdle

Init == MainInit /\ SrcIdle

\* ------------------------------------------------------------ helpers
Op(op, path) == [op |-> op, path |-> path]

\* A caller that issues every operation a second time.
LoggedTwice(c, ops) == log' = [log EXCEPT ![c] = log[c] \o ops \o ops]

\* Conversion c attempts the operations ops, in order.
Logged(c, ops) == log' = [log EXCEPT ![c] = log[c] \o ops]

\* The promise chain of conversion c rejects with error e.
Reject(c, e) ==
    /\ pc' = [pc EXCEPT ![c] = "rejected"]
    /\ st' = [st EXCEPT ![c].err = e]

\* A guard that forgets the destination.
ConfigErrorSourceOnly(o) == ~Truthy(o.source)

\* convert's guard on the mandatory options.
ConfigError(o) == ~Truthy(o.source) \/ ~Truthy(o.destination)

\* path.join(path.dirname(options.destination), '_temp.html'), named by
\* its directory.
TempHtmlPath(destination) == Dirname(destination)

\* A cleanup that leaves the file in place.
RemoveTempSkipped(t, d) == t

\* fs.unlinkSync(tempHtmlPath)
RemoveTemp(t, d) == [t EXCEPT ![d] = NoFile]

\* The render parameters of the "part" copy.
PuppetOptionsPart(o) ==
    [set |-> TRUE, path |-> FileName(o.destination),
     displayHeaderFooter |-> Truthy(o.header) \/ Truthy(o.footer),
     headerTemplate |-> IF Truthy(o.header) THEN o.header ELSE Undef,
     footerTemplate |-> IF Truthy(o.footer) THEN o.footer ELSE Undef]

\* The render parameters of the "index" copy.
PuppetOptionsIndex(o) ==
    [set |-> TRUE, path |-> FileName(o.destination),
     displayHeaderFooter |-> FALSE,
     headerTemplate |-> Undef, footerTemplate |-> Undef]

\* --------------------------------------------------------- convert
\* The synchronous part of convert(options), options being object o with
\* value opt: the guards, assetDir, the style block, and the first read
\* it issues.  Conversions are numbered in the order of their calls.
Convert(c, o, opt) ==
    /\ pc[c] = "idle"
    /\ \A d \in 1..(c - 1) : pc[d] # "idle"
    /\ use' = [use EXCEPT ![c] = o]
    /\ before' = [before EXCEPT ![c] = {d \in Conv : pc[d] \in Terminal}]
    /\ LET sheets == getAllStyles(opt)
           args == [st[c] EXCEPT !.argHeader = opt.header, !.argFooter = opt.footer]
       IN IF ConfigError(opt) THEN
              /\ pc' = [pc EXCEPT ![c] = "threw"]
              /\ st' = [st EXCEPT ![c] = [args EXCEPT !.err = "config"]]
              /\ obj' = [obj EXCEPT ![o] = opt]
              /\ UNCHANGED log
          ELSE
              /\ obj' = [obj EXCEPT ![o] = [opt EXCEPT !.assetDir = Dirname(FileName(opt.source))]]
              /\ IF FirstUnreadable(sheets) # 0 THEN
                     /\ pc' = [pc EXCEPT ![c] = "threw"]
                     /\ st' = [st EXCEPT ![c] = [args EXCEPT !.err = "css"]]
                     /\ Logged(c, CssReads(sheets))
                 ELSE
                     /\ st' = [st EXCEPT ![c] = [args EXCEPT !.css = getCssAsHtml(sheets)]]
                     /\ IF impl = "index" THEN
                            /\ pc' = [pc EXCEPT ![c] = "iLayout"]
                            /\ Logged(c, CssReads(sheets) \o <<Op("readFile", IndexLayout)>>)
                        ELSE IF Truthy(opt.header) THEN
                            /\ pc' = [pc EXCEPT ![c] = "hLayout"]
                            /\ Logged(c, CssReads(sheets) \o <<Op("readFile", HeaderLayout)>>)
                        ELSE
                            /\ pc' = [pc EXCEPT ![c] = "hNone"]
                            /\ Logged(c, CssReads(sheets))
    /\ UNCHANGED <<impl, missing, flavor, browser, page, tmp, pdf, dbg, srcVars>>

\* A caller builds a new options object and passes it to convert.
CallNew(c, preset) == Convert(c, c, preset)

\* A caller passes the options object of an earlier call again.
CallAgain(c, o) ==
    /\ o < c
    /\ use[o] = o
    /\ Convert(c, o, obj[o])

\* prepareHeader, first handler: the header layout was read; read the
\* header file options.header names now.
HeaderLayoutRead(c) ==
    /\ pc[c] = "hLayout"
    /\ IF ~Readable(HeaderLayout) THEN
           Reject(c, "read") /\ UNCHANGED log
       ELSE
           /\ pc' = [pc EXCEPT ![c] = "hFile"]
           /\ st' = [st EXCEPT ![c].read = obj[use[c]].header]
           /\ Logged(c, <<Op("readFile", FileName(obj[use[c]].header))>>)
    /\ UNCHANGED <<impl, missing, obj, flavor, use, browser, page, tmp, pdf, dbg, before, srcVars>>

\* convert's handler on prepareHeader's result: options.header = header,
\* then prepareFooter(options).
SetHeaderThenFooter(c, header) ==
    LET o == use[c]
        ftr == obj[o].footer
    IN /\ obj' = [obj EXCEPT ![o].header = header]
       /\ IF Truthy(ftr) THEN
              /\ pc' = [pc EXCEPT ![c] = "fFile"]
              /\ st' = [st EXCEPT ![c].hdr = header, ![c].read = ftr]
              /\ Logged(c, <<Op("readFile", FileName(ftr))>>)
          ELSE
              /\ pc' = [pc EXCEPT ![c] = "fNone"]
              /\ st' = [st EXCEPT ![c].hdr = header]
              /\ UNCHANGED log

\* prepareHeader, second handler: qualify the header fragment and bind it
\* into the header layout.
HeaderFileRead(c) ==
    /\ pc[c] = "hFile"
    /\ LET p == FileName(st[c].read)
           nodes == FragmentContent(p)
       IN IF ~Readable(p) THEN
              Reject(c, "read") /\ UNCHANGED <<obj, log>>
          ELSE IF QualifyThrows(nodes) THEN
              Reject(c, "qualify") /\ UNCHANGED <<obj, log>>
          ELSE
              SetHeaderThenFooter(c,
                  Html(<<Text("layout:header")>> \o qualifyImgSources(nodes, obj[use[c]].assetDir)))
    /\ UNCHANGED <<impl, missing, flavor, use, browser, page, tmp, pdf, dbg, before, srcVars>>

\* prepareHeader without a header: Promise.resolve() of undefined.
HeaderNone(c) ==
    /\ pc[c] = "hNone"
    /\ SetHeaderThenFooter(c, Undef)
    /\ UNCHANGED <<impl, missing, flavor, use, browser, page, tmp, pdf, dbg, before, srcVars>>

\* convert's handler on prepareFooter's result: options.footer = footer,
\* then read the body layout.
SetFooterThenLayout(c, footer) ==
    /\ obj' = [obj EXCEPT ![use[c]].footer = footer]
    /\ pc' = [pc EXCEPT ![c] = "layout"]
    /\ st' = [st EXCEPT ![c].ftr = footer]
    /\ Logged(c, <<Op("readFile", DocBodyLayout)>>)

FooterFileRead(c) ==
    /\ pc[c] = "fFile"
    /\ LET p == FileName(st[c].read)
           nodes == FragmentContent(p)
       IN IF ~Readable(p) THEN
              Reject(c, "read") /\ UNCHANGED <<obj, log>>
          ELSE IF QualifyThrows(nodes) THEN
              Reject(c, "qualify") /\ UNCHANGED <<obj, log>>
          ELSE
              SetFooterThenLayout(c, Html(qualifyImgSources(nodes, obj[use[c]].assetDir)))
    /\ UNCHANGED <<impl, missing, flavor, use, browser, page, tmp, pdf, dbg, before, srcVars>>

FooterNone(c) ==
    /\ pc[c] = "fNone"
    /\ SetFooterThenLayout(c, Undef)
    /\ UNCHANGED <<impl, missing, flavor, use, browser, page, tmp, pdf, dbg, before, srcVars>>

\* The body layout was read and compiled; read options.source.
LayoutRead(c) ==
    /\ pc[c] = "layout"
    /\ IF ~Readable(DocBodyLayout) THEN
           Reject(c, "read") /\ UNCHANGED log
       ELSE
           /\ pc' = [pc EXCEPT ![c] = "source"]
           /\ st' = [st EXCEPT ![c].read = obj[use[c]].source]
           /\ Logged(c, <<Op("readFile", FileName(obj[use[c]].source))>>)
    /\ UNCHANGED <<impl, missing, obj, flavor, use, browser, page, tmp, pdf, dbg, before, srcVars>>

\* ---------------------------------------------- convert, "index" copy
\* The handler that follows the footer stage: read options.source.
IndexSourceStage(c, hdr, ftr) ==
    /\ pc' = [pc EXCEPT ![c] = "source"]
    /\ st' = [st EXCEPT ![c].hdr = hdr, ![c].ftr = ftr, ![c].read = obj[use[c]].source]
    /\ Logged(c, <<Op("readFile", FileName(obj[use[c]].source))>>)

\* The handler that follows the header stage: read options.footer if set.
IndexFooterStage(c, hdr) ==
    LET ftr == obj[use[c]].footer
    IN IF Truthy(ftr) THEN
           /\ pc' = [pc EXCEPT ![c] = "iFtr"]
           /\ st' = [st EXCEPT ![c].hdr = hdr, ![c].read = ftr]
           /\ Logged(c, <<Op("readFile", FileName(ftr))>>)
       ELSE IndexSourceStage(c, hdr, Undef)

IndexLayoutRead(c) ==
    /\ pc[c] = "iLayout"
    /\ LET hdr == obj[use[c]].header
       IN IF ~Readable(IndexLayout) THEN
              Reject(c, "read") /\ UNCHANGED log
          ELSE IF Truthy(hdr) THEN
              /\ pc' = [pc EXCEPT ![c] = "iHdr"]
              /\ st' = [st EXCEPT ![c].read = hdr]
              /\ Logged(c, <<Op("readFile", FileName(hdr))>>)
          ELSE IndexFooterStage(c, Undef)
    /\ UNCHANGED <<impl, missing, obj, flavor, use, browser, page, tmp, pdf, dbg, before, srcVars>>

IndexHeaderRead(c) ==
    /\ pc[c] = "iHdr"
    /\ LET p == FileName(st[c].read)
           nodes == FragmentContent(p)
       IN IF ~Readable(p) THEN
              Reject(c, "read") /\ UNCHANGED log
          ELSE IF nodes = <<>> THEN
              IndexFooterStage(c, Undef)
          ELSE IF QualifyThrows(nodes) THEN
              Reject(c, "qualify") /\ UNCHANGED log
          ELSE
              IndexFooterStage(c, Html(qualifyImgSources(nodes, obj[use[c]].assetDir)))
    /\ UNCHANGED <<impl, missing, obj, flavor, use, browser, page, tmp, pdf, dbg, before, srcVars>>

IndexFooterRead(c) ==
    /\ pc[c] = "iFtr"
    /\ LET p == FileName(st[c].read)
           nodes == FragmentContent(p)
       IN IF ~Readable(p) THEN
              Reject(c, "read") /\ UNCHANGED log
          ELSE IF nodes = <<>> THEN
              IndexSourceStage(c, st[c].hdr, Undef)
          ELSE IF QualifyThrows(nodes) THEN
              Reject(c, "qualify") /\ UNCHANGED log
          ELSE
              IndexSourceStage(c, st[c].hdr, Html(qualifyImgSources(nodes, obj[use[c]].assetDir)))
    /\ UNCHANGED <<impl, missing, obj, flavor, use, browser, page, tmp, pdf, dbg, before, srcVars>>

\* ------------------------------------------- the body, both copies
\* createPdf's synchronous part: the temp path, and the write it issues.
CreatePdf(c, html) ==
    LET t == TempHtmlPath(FileName(obj[use[c]].destination))
    IN /\ pc' = [pc EXCEPT ![c] = "tmpWrite"]
       /\ st' = [st EXCEPT ![c].html = html, ![c].temp = t]

\* The source was read: Markdown to HTML, qualify, bind into the layout,
\* the debug dump ("index"), createPdf.
SourceRead(c) ==
    /\ pc[c] = "source"
    /\ LET opt == obj[use[c]]
           p == FileName(st[c].read)
           content == parseMarkdownToHtml(MdContent(p), ~opt.noEmoji)
           body == qualifyImgSources(content, opt.assetDir)
           html == IF impl = "index"
                   THEN Doc(st[c].css, body, st[c].hdr, st[c].ftr)
                   ELSE Doc(st[c].css, body, Undef, Undef)
           t == TempHtmlPath(FileName(opt.destination))
       IN IF ~Readable(p) THEN
              Reject(c, "read") /\ UNCHANGED <<flavor, dbg, log>>
          ELSE
              /\ flavor' = "github"
              /\ IF QualifyThrows(content) THEN
                     Reject(c, "qualify") /\ UNCHANGED <<dbg, log>>
                 ELSE IF impl = "index" /\ Truthy(opt.debug) THEN
                     \/ /\ Reject(c, "debug")
                        /\ Logged(c, <<Op("writeFileSync", FileName(opt.debug))>>)
                        /\ UNCHANGED dbg
                     \/ /\ dbg' = [dbg EXCEPT ![FileName(opt.debug)] = File(c, html)]
                        /\ CreatePdf(c, html)
                        /\ Logged(c, <<Op("writeFileSync", FileName(opt.debug)), Op("writeFile", t)>>)
                 ELSE
                     /\ CreatePdf(c, html)
                     /\ Logged(c, <<Op("writeFile", t)>>)
                     /\ UNCHANGED dbg
    /\ UNCHANGED <<impl, missing, obj, use, browser, page, tmp, pdf, before, srcVars>>

\* --------------------------------------------------------- createPdf
\* A chain that writes the composed HTML to the destination as well.
TempWrittenToDestination(c) ==
    /\ pc[c] = "tmpWrite"
    /\ tmp' = [tmp EXCEPT ![st[c].temp] = File(c, st[c].html)]
    /\ pdf' = [pdf EXCEPT ![FileName(obj[use[c]].destination)] =
                  [exists |-> TRUE, by |-> c, html |-> st[c].html, puppet |-> NoPuppet]]
    /\ pc' = [pc EXCEPT ![c] = "launch"]
    /\ Logged(c, <<Op("launch", "")>>)
    /\ UNCHANGED <<impl, missing, obj, flavor, use, st, browser, page, dbg, before, srcVars>>

\* writeFile(tempHtmlPath, html) ended; launch the engine.
TempWritten(c) ==
    /\ pc[c] = "tmpWrite"
    /\ \/ Reject(c, "writeFile") /\ UNCHANGED <<tmp, log>>
       \/ /\ tmp' = [tmp EXCEPT ![st[c].temp] = File(c, st[c].html)]
          /\ pc' = [pc EXCEPT ![c] = "launch"]
          /\ Logged(c, <<Op("launch", "")>>)
          /\ UNCHANGED st
    /\ UNCHANGED <<impl, missing, obj, flavor, use, browser, page, pdf, dbg, before, srcVars>>

\* puppeteer.launch ended; open a page.
Launched(c) ==
    /\ pc[c] = "launch"
    /\ \/ Reject(c, "launch") /\ UNCHANGED <<browser, log>>
       \/ /\ browser' = [browser EXCEPT ![c] = "open"]
          /\ pc' = [pc EXCEPT ![c] = "newPage"]
          /\ Logged(c, <<Op("newPage", "")>>)
          /\ UNCHANGED st
    /\ UNCHANGED <<impl, missing, obj, flavor, use, page, tmp, pdf, dbg, before, srcVars>>

\* browser.newPage ended; navigate to the temp file.
PageCreated(c) ==
    /\ pc[c] = "newPage"
    /\ \/ Reject(c, "newPage") /\ UNCHANGED <<page, log>>
       \/ /\ page' = [page EXCEPT ![c] = "open"]
          /\ pc' = [pc EXCEPT ![c] = "goto"]
          /\ Logged(c, <<Op("goto", st[c].temp)>>)
          /\ UNCHANGED st
    /\ UNCHANGED <<impl, missing, obj, flavor, use, browser, tmp, pdf, dbg, before, srcVars>>

\* page.goto ended: the page holds what the temp path held.  The handler
\* builds the render parameters from options and calls page.pdf.
Navigated(c) ==
    /\ pc[c] = "goto"
    /\ LET opt == obj[use[c]]
           f == tmp[st[c].temp]
       IN \/ Reject(c, "goto") /\ UNCHANGED log
          \/ /\ f.exists
             /\ IF ~opt.pdf THEN
                    /\ pc' = [pc EXCEPT ![c] = "rejected"]
                    /\ st' = [st EXCEPT ![c].err = "pdfOptions",
                                        ![c].loaded = [set |-> TRUE, by |-> f.by, html |-> f.html]]
                    /\ UNCHANGED log
                ELSE
                    /\ pc' = [pc EXCEPT ![c] = "pdf"]
                    /\ st' = [st EXCEPT ![c].loaded = [set |-> TRUE, by |-> f.by, html |-> f.html],
                                        ![c].puppet = IF impl = "index"
                                                      THEN PuppetOptionsIndex(opt)
                                                      ELSE PuppetOptionsPart(opt)]
                    /\ Logged(c, <<Op("pdf", FileName(opt.destination))>>)
    /\ UNCHANGED <<impl, missing, obj, flavor, use, browser, page, tmp, pdf, dbg, before, srcVars>>

\* A chain that emits the PDF without waiting for the navigation.
PdfEmittedEarly(c) ==
    /\ pc[c] = "goto"
    /\ pdf' = [pdf EXCEPT ![FileName(obj[use[c]].destination)] =
                  [exists |-> TRUE, by |-> c, html |-> NoDoc, puppet |-> NoPuppet]]
    /\ pc' = [pc EXCEPT ![c] = "close"]
    /\ Logged(c, <<Op("pdf", FileName(obj[use[c]].destination)), Op("close", "")>>)
    /\ UNCHANGED <<impl, missing, obj, flavor, use, st, browser, page, tmp, dbg, before, srcVars>>

\* page.pdf ended: the PDF is at puppetOptions.path; close the engine.
PdfEmitted(c) ==
    /\ pc[c] = "pdf"
    /\ \/ Reject(c, "pdf") /\ UNCHANGED <<pdf, log>>
       \/ /\ pdf' = [pdf EXCEPT ![st[c].puppet.path] =
                        [exists |-> TRUE, by |-> c, html |-> st[c].loaded.html,
                         puppet |-> st[c].puppet]]
          /\ pc' = [pc EXCEPT ![c] = "close"]
          /\ Logged(c, <<Op("close", "")>>)
          /\ UNCHANGED st
    /\ UNCHANGED <<impl, missing, obj, flavor, use, browser, page, tmp, dbg, before, srcVars>>

\* browser.close ended; the handler unlinks the temp file and returns
\* options.destination.
Closed(c) ==
    /\ pc[c] = "close"
    /\ \/ Reject(c, "close") /\ UNCHANGED <<browser, page, tmp, log>>
       \/ /\ browser' = [browser EXCEPT ![c] = "closed"]
          /\ page' = [page EXCEPT ![c] = "closed"]
          /\ Logged(c, <<Op("unlinkSync", st[c].temp)>>)
          /\ IF ~tmp[st[c].temp].exists THEN
                 Reject(c, "unlink") /\ UNCHANGED tmp
             ELSE
                 /\ tmp' = RemoveTemp(tmp, st[c].temp)
                 /\ pc' = [pc EXCEPT ![c] = "resolved"]
                 /\ st' = [st EXCEPT ![c].result = FileName(obj[use[c]].destination)]
    /\ UNCHANGED <<impl, missing, obj, flavor, use, pdf, dbg, before, srcVars>>

\* ------------------------------------------------------ specification
Next ==
    \E c \in Conv :
        \/ \E preset \in OptionPresets : CallNew(c, preset)
        \/ \E o \in Conv : CallAgain(c, o)
        \/ HeaderLayoutRead(c)
        \/ HeaderFileRead(c)
        \/ HeaderNone(c)
        \/ FooterFileRead(c)
        \/ FooterNone(c)
        \/ LayoutRead(c)
        \/ IndexLayoutRead(c)
        \/ IndexHeaderRead(c)
        \/ IndexFooterRead(c)
        \/ SourceRead(c)
        \/ TempWritten(c)
        \/ Launched(c)
        \/ PageCreated(c)
        \/ Navigated(c)
        \/ PdfEmitted(c)
        \/ Closed(c)

Spec == Init /\ [][Next]_vars

\* ------------------------------------- the Asset Path Resolver alone
\* One img element is handed to the loop body of qualifyImgSources:
\* img.attribs.src = processSrc(img.attribs.src, options).
AssetDirs == {"/docs", "/srv"}

InitSrc ==
    /\ impl = "part"
    /\ missing = {}
    /\ obj = [c \in Conv |-> PlainOptions]
    /\ NoCallYet
    /\ rPc = "idle"
    /\ rIn \in {Img(s) : s \in SrcSet} \cup {ImgNoSrc}
    /\ rDir \in AssetDirs
    /\ rOut = <<>>
    /\ CssIdle

QualifyImg ==
    /\ rPc = "idle"
    /\ IF ~rIn.has THEN
           rPc' = "threw" /\ UNCHANGED rOut
       ELSE
           rPc' = "done" /\ rOut' = processSrc(rIn.src, rDir)
    /\ UNCHANGED <<rIn, rDir, sPc, sOpt, sOut, mainVars>>

NextSrc == QualifyImg

SpecSrc == InitSrc /\ [][NextSrc]_vars

\* --------------------------------------- the Style Composer alone
\* getAllStyles(options) is called once, for every combination of
\* ghStyle, defaultStyle and styles, over trees in which some of the
\* stylesheets cannot be read.
StyleChoices == {Undef, Str(""), Str("/docs/user.css"), Str("/docs/gone.css")}

InitCss ==
    /\ impl = "part"
    /\ missing \in SUBSET {GithubCss, DefaultCss, "/docs/user.css"}
    /\ obj = [c \in Conv |-> PlainOptions]
    /\ NoCallYet
    /\ rPc = "off" /\ rIn = <<>> /\ rDir = "" /\ rOut = <<>>
    /\ sPc = "idle"
    /\ \E gh \in BOOLEAN, def \in BOOLEAN, styles \in StyleChoices :
           sOpt = [PlainOptions EXCEPT !.ghStyle = gh, !.defaultStyle = def, !.styles = styles]
    /\ sOut = <<>>

ComposeStyles ==
    /\ sPc = "idle"
    /\ LET sheets == getAllStyles(sOpt)
       IN IF FirstUnreadable(sheets) # 0 THEN
              sPc' = "threw" /\ UNCHANGED sOut
          ELSE
              sPc' = "done" /\ sOut' = getCssAsHtml(sheets)
    /\ UNCHANGED <<sOpt, rPc, rIn, rDir, rOut, mainVars>>

NextCss == ComposeStyles

SpecCss == InitCss /\ [][NextCss]_vars

\* ============================================================ claims
\* What a caller supplied: the option is present (not undefined).
Supplied(v) == v.k # "undef"

Called(c) == use[c] # 0

\* The files conversion c left behind.
OwnsTemp(c) == \E d \in TempDirs : tmp[d].exists /\ tmp[d].by = c
WrotePdf(c) == \E p \in Dests : pdf[p].exists /\ pdf[p].by = c
WroteDebug(c) == \E p \in DebugPaths : dbg[p].exists /\ dbg[p].by = c

\* C1: a convert call whose options lack source or destination fails
\* before any filesystem read or write and before the engine is launched:
\* it attempted no I/O operation at all, left no temp file, no debug file
\* and no PDF, and holds no engine.
C1_ConfigErrorBeforeAnyIO ==
    \A c \in Conv :
        (Called(c) /\ (~Supplied(obj[use[c]].source) \/ ~Supplied(obj[use[c]].destination)))
        => /\ pc[c] \in {"threw", "rejected"}
           /\ st[c].err = "config"
           /\ log[c] = <<>>
           /\ ~OwnsTemp(c) /\ ~WrotePdf(c) /\ ~WroteDebug(c)
           /\ browser[c] = "none" /\ page[c] = "none"

C1_Witness ==
    \E c \in Conv :
        /\ Called(c)
        /\ ~Supplied(obj[use[c]].destination)
        /\ Supplied(obj[use[c]].source)
        /\ st[c].err = "config"

\* C2: every failure of a conversion is surfaced as a rejection of the
\* promise convert returned: a conversion that failed never ended by
\* throwing out of convert instead.
C2_EveryFailureRejects ==
    \A c \in Conv : st[c].err # "" => pc[c] = "rejected"

\* C3: no conversion that has ended still holds an open engine process or
\* an open page.
C3_EngineClosedAtEnd ==
    \A c \in Conv : pc[c] \in Terminal => browser[c] # "open" /\ page[c] # "open"

\* C4: a conversion navigates only to a temp file it wrote itself, never
\* overwrites a temp file another conversion wrote, and removes only a
\* temp file it wrote itself.
C4_StepOwnTemp ==
    \A c \in Conv :
        /\ (pc[c] = "goto" /\ pc'[c] = "pdf") => tmp[st[c].temp].by = c
        /\ (pc[c] = "tmpWrite" /\ pc'[c] = "launch")
              => (~tmp[st[c].temp].exists \/ tmp[st[c].temp].by = c)
        /\ (pc[c] = "close" /\ pc'[c] = "resolved") => tmp[st[c].temp].by = c

C4_OwnTempFile == [][C4_StepOwnTemp]_vars

\* C5: once a conversion has ended, whether it succeeded or failed, no
\* temp file it wrote exists.
C5_TempRemovedAtEnd ==
    \A c \in Conv : pc[c] \in Terminal => ~OwnsTemp(c)

\* C6: a conversion whose promise resolved did so with options.destination,
\* after it emitted the PDF there, and no temp file it wrote exists; when
\* it is the only conversion of the process, nothing is left at its temp
\* path.
C6_ResolvedMeansPdfAndNoTemp ==
    \A c \in Conv :
        pc[c] = "resolved" =>
            /\ st[c].result = obj[use[c]].destination.path
            /\ st[c].puppet.set /\ st[c].puppet.path = st[c].result
            /\ pdf[st[c].result].exists
            /\ ~OwnsTemp(c)
            /\ (\A d \in Conv \ {c} : pc[d] = "idle") => ~tmp[st[c].temp].exists

C6_Witness ==
    \E c \in Conv :
        /\ pc[c] = "resolved"
        /\ \A d \in Conv \ {c} : pc[d] = "idle"
        /\ pdf[st[c].result].by = c

\* C7: displayHeaderFooter is true exactly when a header or a footer was
\* supplied; the markup of a supplied side ends with the qualified content
\* of its fragment, and a side that was not supplied has no markup.
QualifiedFragment(v, dir) == qualifyImgSources(FragmentContent(FileName(v)), dir)

EndsWith(s, t) == Len(t) <= Len(s) /\ SubSeq(s, Len(s) - Len(t) + 1, Len(s)) = t

C7_Side(arg, template, dir) ==
    IF Supplied(arg)
    THEN template.k = "html" /\ EndsWith(template.nodes, QualifiedFragment(arg, dir))
    ELSE template = Undef

C7_DisplayHeaderFooter ==
    \A c \in Conv :
        st[c].puppet.set =>
            /\ st[c].puppet.displayHeaderFooter
                  <=> (Supplied(st[c].argHeader) \/ Supplied(st[c].argFooter))
            /\ C7_Side(st[c].argHeader, st[c].puppet.headerTemplate, obj[use[c]].assetDir)
            /\ C7_Side(st[c].argFooter, st[c].puppet.footerTemplate, obj[use[c]].assetDir)

\* C8: a second convert call made with the options object of an earlier
\* call that composed its HTML does not fail while composing, and composes
\* the same HTML and the same header and footer markup.
ComposeErrors == {"config", "css", "read", "qualify"}

C8_Idempotent ==
    \A c1, c2 \in Conv :
        (c1 \in before[c2] /\ use[c1] = use[c2] /\ st[c1].html.set)
        => /\ st[c2].err \notin ComposeErrors
           /\ st[c2].html.set => st[c2].html = st[c1].html
           /\ (st[c1].puppet.set /\ st[c2].puppet.set)
                 => /\ st[c2].puppet.headerTemplate = st[c1].puppet.headerTemplate
                    /\ st[c2].puppet.footerTemplate = st[c1].puppet.footerTemplate

\* C9: the resolver leaves a src unchanged if and only if its URI scheme is
\* http or https; any other src is rewritten to the local-file URI of its
\* path resolved against the base directory.
SchemeIsHttp(src) == UrlProtocol(src) \in {<<"http:">>, <<"https:">>}

C9_UnchangedIffHttpScheme ==
    rPc = "done" =>
        IF SchemeIsHttp(rIn.src)
        THEN rOut = rIn.src
        ELSE rOut = FileUrl(PathResolve(rDir, rIn.src))

\* C10: an img without a usable src never aborts a conversion.
C10_MalformedSrcDoesNotAbort ==
    \A c \in Conv : st[c].err # "qualify"

\* C11: a read of an input that fails (a stylesheet, a layout, the header
\* file, the footer file, the source) is the last operation its conversion
\* attempts: the conversion is waiting for that read or has ended with the
\* read's error, it composed no HTML, wrote no temp file, launched no
\* engine and emitted no PDF.
ReadOps == {"readFile", "readFileSync"}

AwaitsRead == {"hLayout", "hFile", "fFile", "layout", "source", "iLayout", "iHdr", "iFtr"}

FailedRead(c, i) == log[c][i].op \in ReadOps /\ ~Readable(log[c][i].path)

C11_ReadFailureAborts ==
    \A c \in Conv : \A i \in 1..Len(log[c]) :
        FailedRead(c, i) =>
            /\ i = Len(log[c])
            /\ pc[c] \in AwaitsRead \cup {"threw", "rejected"}
            /\ pc[c] \in Terminal => st[c].err \in {"css", "read"}
            /\ ~st[c].html.set
            /\ ~OwnsTemp(c) /\ ~WrotePdf(c) /\ ~WroteDebug(c)
            /\ browser[c] = "none" /\ page[c] = "none"

C11_Witness ==
    \E c \in Conv :
        /\ pc[c] = "rejected" /\ st[c].err = "read"
        /\ Len(log[c]) >= 3
        /\ FailedRead(c, Len(log[c]))
        /\ log[c][Len(log[c])].path = "/docs/gone.md"

\* C12: for every combination of ghStyle, defaultStyle and styles the
\* composed style block holds the highlighting stylesheet, the GitHub and
\* the default stylesheet exactly when their flag is set, the user
\* stylesheet when one is given (a non-empty path), nothing else, in the
\* order GitHub, highlighting, default, user: the user stylesheet is last.
Pos(block, sheet) ==
    LET at == {i \in 1..Len(block) : block[i].text = sheet}
    IN IF at = {} THEN 0 ELSE CHOOSE i \in at : TRUE

Given(v) == v.k = "path" /\ v.path # ""

C12_StyleOrder ==
    sPc = "done" =>
        LET gh == Pos(sOut, GithubCss)
            hl == Pos(sOut, HighlightCss)
            df == Pos(sOut, DefaultCss)
            us == IF Given(sOpt.styles) THEN Pos(sOut, sOpt.styles.path) ELSE 0
        IN /\ hl > 0
           /\ gh > 0 <=> sOpt.ghStyle
           /\ df > 0 <=> sOpt.defaultStyle
           /\ Given(sOpt.styles) => us = Len(sOut)
           /\ Cardinality({gh, hl, df, us} \ {0}) = Len(sOut)
           /\ gh > 0 => gh < hl
           /\ df > 0 => hl < df
           /\ \A i \in 1..Len(sOut) : sOut[i].tag = "style"

C12_Witness ==
    /\ sPc = "done"
    /\ sOpt.ghStyle /\ sOpt.defaultStyle /\ Given(sOpt.styles)
    /\ Len(sOut) = 4

\* C13: options.debug has no effect on the render path: no conversion ends
\* with the error of the debug write (an outcome a conversion without
\* debug cannot have), and a conversion called with a debug path that
\* composed its HTML attempted the debug write just before the temp write.
OpsAt(c, op) == {i \in 1..Len(log[c]) : log[c][i].op = op}

C13_DebugNoEffect ==
    \A c \in Conv :
        /\ st[c].err # "debug"
        /\ (Called(c) /\ Truthy(obj[use[c]].debug) /\ st[c].html.set)
           => \E i \in OpsAt(c, "writeFileSync") :
                 /\ log[c][i].path = obj[use[c]].debug.path
                 /\ i + 1 \in OpsAt(c, "writeFile")

\* C14: within one conversion no operation is attempted twice (no read of
\* a file, no temp write, launch, page creation, navigation, PDF emission,
\* close or temp removal), and a conversion that has ended, by failure or
\* success, attempts nothing more.
EngineOps == {"writeFile", "launch", "newPage", "goto", "pdf", "close", "unlinkSync"}

C14_AtMostOnce ==
    \A c \in Conv :
        /\ \A i, j \in 1..Len(log[c]) : i # j => log[c][i] # log[c][j]
        /\ \A op \in EngineOps : Cardinality(OpsAt(c, op)) <= 1

C14_EndedStays ==
    \A c \in Conv : pc[c] \in Terminal => (pc'[c] = pc[c] /\ log'[c] = log[c])

C14_NoRetries == []C14_AtMostOnce /\ [][C14_EndedStays]_vars

C14_Witness ==
    \E c \in Conv :
        /\ pc[c] = "rejected" /\ st[c].err = "launch"
        /\ Cardinality(OpsAt(c, "launch")) = 1
        /\ \E d \in Conv \ {c} : c \in before[d] /\ pc[d] = "resolved"

\* C15: the operations createPdf attempts are an initial part of the chain
\* temp write, launch, page creation, navigation, PDF emission, close,
\* temp removal, in this order and after every read; an operation is
\* attempted only when the one before it has completed (the PDF after the
\* page was loaded, the temp removal after the engine was closed); a
\* conversion that resolved went through the whole chain, and one that
\* failed at an operation attempted none after it.
RenderChain == <<"writeFile", "launch", "newPage", "goto", "pdf", "close", "unlinkSync">>

IsEngineOp(e) == e.op \in EngineOps

EngineLog(c) == SelectSeq(log[c], IsEngineOp)

\* The operation at which a conversion that ended with error e stopped.
FailedOp(e) ==
    CASE e = "pdfOptions" -> "goto"
      [] e = "unlink" -> "unlinkSync"
      [] OTHER -> e

C15_RenderOrder ==
    \A c \in Conv :
        LET ops == [i \in 1..Len(EngineLog(c)) |-> EngineLog(c)[i].op]
            n == Len(ops)
        IN /\ ops = SubSeq(RenderChain, 1, n)
           /\ EngineLog(c) = SubSeq(log[c], Len(log[c]) - n + 1, Len(log[c]))
           /\ n >= 3 => browser[c] # "none"
           /\ n >= 4 => page[c] # "none"
           /\ n >= 5 => st[c].loaded.set /\ st[c].puppet.set
           /\ n >= 6 => pdf[st[c].puppet.path].exists
           /\ n >= 7 => browser[c] = "closed"
           /\ pc[c] = "resolved" => n = 7
           /\ (pc[c] = "rejected" /\ FailedOp(st[c].err) \in EngineOps)
              => (n >= 1 /\ ops[n] = FailedOp(st[c].err))

C15_Witness ==
    \E c, d \in Conv :
        /\ pc[c] = "resolved" /\ Len(EngineLog(c)) = 7
        /\ pc[d] = "rejected" /\ st[d].err = "pdf" /\ Len(EngineLog(d)) = 5

\* C16: every conversion that composed its HTML converted its Markdown
\* under the github flavor (the process-wide flavor is github from then
\* on, and github-only syntax is rendered) and with the emoji setting of
\* its own request: shortcodes are replaced exactly when its noEmoji is not
\* set, whatever other conversions of the process asked for.
InBody(c, node) == \E i \in 1..Len(st[c].html.body) : st[c].html.body[i] = node

C16_FlavorAndEmojiPerRequest ==
    \A c \in Conv :
        st[c].html.set =>
            LET opt == obj[use[c]]
                own == Converter("github", ~opt.noEmoji)
            IN /\ flavor = "github"
               /\ st[c].html.body =
                     qualifyImgSources(makeHtml(own, MdContent(opt.source.path)), opt.assetDir)
               /\ InBody(c, Text("del:x")) /\ ~InBody(c, Text("~~x~~"))
               /\ InBody(c, Text("glyph:smile")) <=> ~opt.noEmoji
               /\ InBody(c, Text(":smile:")) <=> opt.noEmoji

C16_Witness ==
    \E c, d \in Conv :
        /\ st[c].html.set /\ st[d].html.set
        /\ c \notin before[d] /\ d \notin before[c]
        /\ obj[use[c]].noEmoji /\ ~obj[use[d]].noEmoji
        /\ InBody(c, Text(":smile:")) /\ InBody(d, Text("glyph:smile"))

\* C17: within one conversion the base directory is the directory of the
\* source, fixed when convert is called, and every img of the body, the
\* header and the footer whose src has no scheme points into that
\* directory: its src is the local-file URI of its path resolved against
\* the base, not against the directory of the header or footer file.
Last(s, n) == SubSeq(s, Len(s) - n + 1, Len(s))

ResolvedAgainst(out, in, base) ==
    /\ Len(out) >= Len(in)
    /\ \A i \in 1..Len(in) :
          (in[i].t = "img" /\ in[i].has /\ UrlProtocol(in[i].src) = <<>>)
          => Last(out, Len(in))[i] = Img(FileUrl(PathResolve(base, in[i].src)))

FragmentResolved(arg, html, base) ==
    (arg.k = "path" /\ html.k = "html") => ResolvedAgainst(html.nodes, FragmentContent(arg.path), base)

C17_SingleBaseDir ==
    \A c \in Conv :
        (Called(c) /\ st[c].err # "config") =>
            LET opt == obj[use[c]]
                base == Dirname(opt.source.path)
            IN /\ opt.assetDir = base
               /\ FragmentResolved(st[c].argHeader, st[c].hdr, base)
               /\ FragmentResolved(st[c].argFooter, st[c].ftr, base)
               /\ st[c].html.set =>
                     ResolvedAgainst(st[c].html.body,
                                     parseMarkdownToHtml(MdContent(opt.source.path), ~opt.noEmoji),
                                     base)

C17_Witness ==
    \E c \in Conv :
        /\ st[c].html.set
        /\ st[c].hdr.k = "html" /\ st[c].ftr.k = "html"
        /\ st[c].hdr.nodes[Len(st[c].hdr.nodes)] = Img(<<"file://", "/docs", "/", "img.png">>)
        /\ st[c].ftr.nodes[Len(st[c].ftr.nodes)] = Img(<<"file://", "/docs", "/", "img.png">>)
        /\ InBody(c, Img(<<"file://", "/docs", "/", "img.png">>))

\* C18: the options object a caller passed holds, at every moment after the
\* call, the header and footer values it held when convert was called.
C18_OptionsNotMutated ==
    \A c \in Conv :
        Called(c) =>
            /\ obj[use[c]].header = st[c].argHeader
            /\ obj[use[c]].footer = st[c].argFooter

\* C19: the file at a destination changes only in the step in which a
\* conversion's page.pdf completes, and then only the file at that
\* conversion's own destination; a conversion that failed before that step
\* (configuration, a read, the qualification, the debug or temp write,
\* launch, page creation, navigation, the render parameters) has written
\* no destination file.
EarlyErrors == {"config", "css", "read", "qualify", "debug", "writeFile", "launch",
                "newPage", "goto", "pdfOptions"}

C19_FailedEarlyWroteNothing ==
    \A c \in Conv : st[c].err \in EarlyErrors => ~WrotePdf(c)

C19_StepOnlyPdfEmission ==
    \A p \in Dests :
        pdf'[p] # pdf[p] =>
            \E c \in Conv :
                /\ pc[c] = "pdf" /\ pc'[c] = "close"
                /\ p = obj[use[c]].destination.path
                /\ pdf'[p].by = c
                /\ \A q \in Dests \ {p} : pdf'[q] = pdf[q]

C19_DestinationOnlyByPdf == []C19_FailedEarlyWroteNothing /\ [][C19_StepOnlyPdfEmission]_vars

C19_Witness ==
    \E c, d \in Conv :
        /\ pc[d] = "resolved" /\ d \in before[c]
        /\ obj[use[c]].destination = obj[use[d]].destination
        /\ pc[c] = "rejected" /\ st[c].err = "goto"
        /\ pdf[st[d].result].exists /\ pdf[st[d].result].by = d

====
